---- MODULE Spec2Model ----
(***************************************************************************)
(* local-skills: the add / update / remove orchestrator over the manifest   *)
(* store, the state store, the installed skill directories and the scratch  *)
(* clones, with the upstream marketplace and plugin repositories and the    *)
(* user's manual edits as the environment; next to it the reference parser  *)
(* and the content hash, each applied to inputs of its own.                 *)
(*                                                                          *)
(* Strings the code inspects character by character (refs, source labels,   *)
(* clone URLs) are sequences of one-character strings.                      *)
(***************************************************************************)
EXTENDS Integers, Sequences, FiniteSets, TLC

VARIABLES manifest, state, dirs, upSha, extSha, events, last, trail,
          now, scratch, inv, probe, tree

vars == <<manifest, state, dirs, upSha, extSha, events, last, trail,
          now, scratch, inv, probe, tree>>

\* the project with its upstream, as the sequential add / update / remove
\* calls see it
projectVars == <<manifest, state, dirs, upSha, extSha, events, last, trail>>

\* the clock, the scratch directories on disk and the invocations that run
\* side by side
invocationVars == <<now, scratch, inv>>

\* Bounds of the model: commits made to the marketplace repository, and the
\* events that are not the tool's doing (manual changes to the project, I/O
\* failures striking a call).
MaxSha == 3
MaxEvents == 1
MaxExtSha == 2
\* the milliseconds the clock runs through, and the length of a reference
\* typed character by character
MaxNow == 1
MaxInput == 5
\* files written to a directory before it is hashed, and bytes per file
MaxFiles == 2
MaxContent == 1

----------------------------------------------------------------------------
\* Names and text of the fixture

Skills == {"tdd", "debug"}
\* a regular file lying in a plugin's skills folder
StrayFile == "README.md"
Entries == Skills \cup {StrayFile}
\* what a ParsedSpecifier without a skill carries
UndefinedSkill == "undefined"
Paths == {"SKILL.md", "helpers.md"}
\* file contents, as sequences of bytes: two versions upstream and a manual
\* edit
V1 == <<"v1">>
V2 == <<"v2">>
Local == <<"local">>

NoFiles == [p \in {} |-> V1]
Absent == [present |-> FALSE, files |-> NoFiles]

Dir(files) == [present |-> TRUE, files |-> files]
\* a regular file: its own content under the empty relative path
File(content) == [present |-> TRUE, files |-> [p \in {""} |-> content]]
isDirectory(entry) == entry.present /\ "" \notin DOMAIN entry.files

NoSkills == [s \in {} |-> 0]

HexDigits == <<"a", "b", "c", "d", "e", "f", "0", "1", "2", "3", "4", "5", "6", "7", "8", "9">>
HexChars == {HexDigits[i] : i \in 1..Len(HexDigits)}

ShaLen == 40

\* the commit hash of the n-th commit: 40 lowercase hexadecimal characters
ShaOf(n) == [i \in 1..ShaLen |-> HexDigits[n]]

HEAD == <<"H", "E", "A", "D">>
MainRef == <<"m", "a", "i", "n">>
\* the first commit hash in upper case: 40 characters that are hexadecimal
\* digits, none of them lower case
UpperSha == [i \in 1..ShaLen |-> "A"]
\* spec.ref when the specifier names no ref
NoRef == <<"undefined">>

----------------------------------------------------------------------------
\* Specifiers, source labels and clone URLs

GithubPrefix == <<"h", "t", "t", "p", "s", ":", "/", "/", "g", "i", "t", "h", "u", "b", ".", "c", "o", "m", "/">>
DotGit == <<".", "g", "i", "t">>
ProtocolSep == <<":", "/", "/">>

FileUrl == <<"f", "i", "l", "e", ":", "/", "/", "/", "m">>
BarePath == <<"/", "m">>
ExtUrl == <<"f", "i", "l", "e", ":", "/", "/", "/", "x">>

GithubMarketplace == [type |-> "github", owner |-> <<"o">>, repo |-> <<"r">>, url |-> <<>>]
UrlMarketplace == [type |-> "url", owner |-> <<>>, repo |-> <<>>, url |-> FileUrl]
PathMarketplace == [type |-> "url", owner |-> <<>>, repo |-> <<>>, url |-> BarePath]

Marketplaces == {GithubMarketplace, UrlMarketplace, PathMarketplace}

\* plugins of the marketplace manifest: sp has the relative source ".",
\* ext has a remote source {source: "url", url: ExtUrl}; zz is not listed
PluginSp == <<"s", "p">>
PluginExt == <<"e", "x", "t">>
PluginZz == <<"z", "z">>
\* docs has the relative source "./docs"; its skills folder holds the skill
\* tdd and a regular file
PluginDocs == <<"d", "o", "c", "s">>
\* bare has the relative source "./bare", a directory without a skills folder
PluginBare == <<"b", "a", "r", "e">>

marketplaceUrl(spec) ==
  IF spec.marketplace.type = "github"
  THEN GithubPrefix \o spec.marketplace.owner \o <<"/">> \o spec.marketplace.repo \o DotGit
  ELSE spec.marketplace.url

\* the label written without the owner
sourceLabelRepoOnly(spec) ==
  IF spec.marketplace.type = "github"
  THEN spec.plugin \o <<"@">> \o spec.marketplace.repo
  ELSE spec.plugin \o <<"@">> \o spec.marketplace.url

sourceLabel(spec) ==
  IF spec.marketplace.type = "github"
  THEN spec.plugin \o <<"@">> \o spec.marketplace.owner \o <<"/">> \o spec.marketplace.repo
  ELSE spec.plugin \o <<"@">> \o spec.marketplace.url

\* String.prototype.indexOf for a single character, 1-based; 0 when absent
indexOf(str, ch) ==
  IF \E i \in 1..Len(str) : str[i] = ch
  THEN CHOOSE i \in 1..Len(str) : str[i] = ch /\ \A j \in 1..(i - 1) : str[j] # ch
  ELSE 0

\* String.prototype.includes
includes(str, sub) ==
  \E i \in 1..(Len(str) - Len(sub) + 1) : SubSeq(str, i, i + Len(sub) - 1) = sub

\* the clone URL update derives from a manifest source label
cloneUrlOf(source) ==
  LET atIdx == indexOf(source, "@")
      marketplacePart == SubSeq(source, atIdx + 1, Len(source))
  IN IF includes(marketplacePart, ProtocolSep)
     THEN marketplacePart
     ELSE GithubPrefix \o marketplacePart \o DotGit

pluginNameOf(source) == SubSeq(source, 1, indexOf(source, "@") - 1)

\* the pattern written with upper-case digits: /^[A-F0-9]{40}$/
isShaRefUpper(ref) ==
  /\ Len(ref) = ShaLen
  /\ \A i \in 1..Len(ref) :
       ref[i] \in {"0", "1", "2", "3", "4", "5", "6", "7", "8", "9", "A", "B", "C", "D", "E", "F"}

\* /^[a-f0-9]{40}$/
isShaRef(ref) == Len(ref) = ShaLen /\ \A i \in 1..Len(ref) : ref[i] \in HexChars

----------------------------------------------------------------------------
\* The upstream repositories (the git fixture of the tests)

\* URLs under which the marketplace repository can be cloned
MarketplaceUrls == {marketplaceUrl([marketplace |-> m]) : m \in Marketplaces}

\* branches of the marketplace repository
Branches == {MainRef}

\* skills/<skill> of plugin sp in the marketplace repository at commit n
SpContent(skill, n) ==
  IF skill = "tdd"
  THEN IF n = 1 THEN Dir([p \in Paths |-> V1])
       ELSE IF n = 2 THEN Dir([p \in Paths |-> IF p = "SKILL.md" THEN V2 ELSE V1])
       ELSE Dir([p \in {"SKILL.md"} |-> V2])
  ELSE IF skill = "debug"
  THEN IF n < 3 THEN Dir([p \in {"SKILL.md"} |-> V1]) ELSE Absent
  ELSE Absent

\* skills/<skill> of the plugin repository behind ext at its commit k
ExtContent(skill, k) ==
  IF skill = "tdd"
  THEN Dir([p \in {"SKILL.md"} |-> IF k = 1 THEN V1 ELSE V2])
  ELSE Absent

\* docs/skills/<entry> in the marketplace repository, the same at every commit
DocsContent(entry) ==
  IF entry = "tdd" THEN Dir([p \in {"SKILL.md"} |-> V1])
  ELSE IF entry = StrayFile THEN File(V1)
  ELSE Absent

\* git clone --depth 1 [--branch ref] url target: succeeds for a reachable
\* URL and, when a ref is given, an existing branch
cloneRepo(url, ref) ==
  /\ url \in MarketplaceUrls \cup {ExtUrl}
  /\ ref = NoRef \/ ref \in Branches

\* git rev-parse HEAD in the marketplace clone
getHeadSha == ShaOf(upSha)

\* findPlugin: the descriptors listed in marketplace.json
findPlugin(pluginName) == pluginName \in {PluginSp, PluginExt, PluginDocs, PluginBare}

\* typeof plugin.source === 'object'
isRemote(pluginName) == pluginName = PluginExt

----------------------------------------------------------------------------
\* Filesystem and the two stores

\* Array.prototype.sort on the relative paths: UTF-16 code unit order
\* paths of the directories that are only hashed
HashPaths == {"a", "b", "c"}

\* the order of the paths by UTF-16 code units, which is what sort() uses
PathRank(p) ==
  IF p = "SKILL.md" THEN 1
  ELSE IF p = "a" THEN 2
  ELSE IF p = "b" THEN 3
  ELSE IF p = "c" THEN 4
  ELSE 5

\* the enumerations of a set of paths: the orders find can print them in
Enumerations(ps) ==
  {seq \in [1..Cardinality(ps) -> ps] : \A p \in ps : \E i \in DOMAIN seq : seq[i] = p}

\* the relative paths left as find printed them
relativePathsUnsorted(enumeration) == enumeration

\* the relative paths after .sort()
relativePaths(enumeration) ==
  LET ps == {enumeration[i] : i \in DOMAIN enumeration}
  IN CHOOSE seq \in Enumerations(ps) :
       \A i, j \in DOMAIN seq : i < j => PathRank(seq[i]) < PathRank(seq[j])

NUL == "\\0"

\* bytes that are not UTF-8, and the replacement character they decode to
InvalidBytes == {"0xFF", "0xFE"}
Replacement == "U+FFFD"

\* readFile(path, 'utf-8'): every byte that is not UTF-8 reads as U+FFFD
decodeUtf8(content) ==
  [i \in DOMAIN content |-> IF content[i] \in InvalidBytes THEN Replacement ELSE content[i]]

RECURSIVE hashFeed(_, _)
\* what the loop over the sorted paths feeds to the hash:
\* relPath + NUL + content for each file in turn
hashFeed(files, paths) ==
  IF paths = <<>> THEN <<>>
  ELSE <<Head(paths), NUL>> \o decodeUtf8(files[Head(paths)])
       \o hashFeed(files, Tail(paths))

\* the digest of the files that find enumerates; SHA-256 is taken to be
\* injective, so the digest is identified with the bytes fed to it
contentHash(files, enumeration) == hashFeed(files, relativePaths(enumeration))

\* computeContentHash of a directory that exists
computeContentHash(dir) ==
  contentHash(dir.files, CHOOSE seq \in Enumerations(DOMAIN dir.files) : TRUE)

\* fs.cp(src, dest, {recursive: true}): files of src overwrite those of
\* dest, other files of an existing dest stay
cp(src, dest) ==
  IF ~dest.present THEN src
  ELSE Dir([p \in DOMAIN dest.files \cup DOMAIN src.files |->
              IF p \in DOMAIN src.files THEN src.files[p] ELSE dest.files[p]])

\* readManifest, readState: a missing file reads as the empty collection
readManifest == IF manifest.exists THEN manifest.skills ELSE NoSkills
readState == IF state.exists THEN state.skills ELSE NoSkills

\* {...skills, [name]: entry}
withEntry(skills, name, entry) ==
  [s \in DOMAIN skills \cup {name} |-> IF s = name THEN entry ELSE skills[s]]

\* addSkillToManifest: SKILL_ALREADY_EXISTS for a name that is present,
\* otherwise the collection with the entry added
addSkillToManifest(skills, name, entry) ==
  [ok |-> name \notin DOMAIN skills,
   skills |-> [s \in DOMAIN skills \cup {name} |-> IF s = name THEN entry ELSE skills[s]]]

\* removeSkillFromManifest with the filter inverted: the entry to remove is
\* the only one kept
removeSkillFromManifestInverted(skills, name) ==
  [ok |-> name \in DOMAIN skills,
   skills |-> [s \in DOMAIN skills \cap {name} |-> skills[s]]]

\* removeSkillFromManifest: SKILL_NOT_INSTALLED for a name that is absent,
\* otherwise the collection without the entry
removeSkillFromManifest(skills, name) ==
  [ok |-> name \in DOMAIN skills,
   skills |-> [s \in DOMAIN skills \ {name} |-> skills[s]]]

\* writeManifest, writeState: the whole collection replaces the file
writeManifest(skills) == [exists |-> TRUE, skills |-> skills]
writeState(skills) == [exists |-> TRUE, skills |-> skills]

----------------------------------------------------------------------------
\* Operations.  Each yields the project after the call and what it returned:
\* started is the set of scratch clones the call created, left those still
\* on disk when it returned.

\* the step of a call at which an external command or a filesystem
\* operation fails
AddFaults == {"clone", "revparse", "pluginClone", "cp", "writeManifest", "rmClone"}
UpdateFaults == {"modhash", "clone", "revparse", "cp", "writeState", "writeManifest",
                 "rmClone"}
RemoveFaults == {"rm", "writeManifest"}
\* a read of the manifest or of the state file that fails although the file
\* is there (EACCES, EIO, ...): toFsError makes it the FS_ERROR that
\* readManifest and readState take for a missing file
ReadFaults == {"readManifest", "readState"}

Outcome(m, st, d, result, started, left, oldSha, newSha) ==
  [manifest |-> m, state |-> st, dirs |-> d, result |-> result,
   started |-> started, left |-> left, oldSha |-> oldSha, newSha |-> newSha]

NoSha == <<>>

\* the call returns result and has touched nothing in the project
Untouched(result, started, left) ==
  Outcome(manifest, state, dirs, result, started, left, NoSha, NoSha)

\* remove with the two steps swapped: the manifest is written before the
\* directory is deleted
removeManifestFirst(skillName, fault) ==
  LET updated == removeSkillFromManifest(readManifest, skillName)
  IN IF ~updated.ok THEN Untouched("SKILL_NOT_INSTALLED", {}, {})
     ELSE IF fault = "writeManifest" THEN Untouched("FS_ERROR", {}, {})
     ELSE IF fault = "rm"
     THEN Outcome(writeManifest(updated.skills), state, dirs, "FS_ERROR", {}, {},
                  NoSha, NoSha)
     ELSE Outcome(writeManifest(updated.skills), state,
                  [dirs EXCEPT ![skillName] = Absent], "ok", {}, {}, NoSha, NoSha)

\* remove deleting the directory before it looks the skill up in the manifest
removeDirFirst(skillName, fault) ==
  LET updated == removeSkillFromManifest(readManifest, skillName)
      removed == [dirs EXCEPT ![skillName] = Absent]
  IN IF fault = "rm" THEN Untouched("FS_ERROR", {}, {})
     ELSE IF ~updated.ok
     THEN Outcome(manifest, state, removed, "SKILL_NOT_INSTALLED", {}, {}, NoSha, NoSha)
     ELSE IF fault = "writeManifest"
     THEN Outcome(manifest, state, removed, "FS_ERROR", {}, {}, NoSha, NoSha)
     ELSE Outcome(writeManifest(updated.skills), state, removed, "ok", {}, {},
                  NoSha, NoSha)

remove(skillName, fault) ==
  LET updated == removeSkillFromManifest(readManifest, skillName)
      removed == [dirs EXCEPT ![skillName] = Absent]
  IN IF ~updated.ok THEN Untouched("SKILL_NOT_INSTALLED", {}, {})
     ELSE IF fault = "rm" THEN Untouched("FS_ERROR", {}, {})
     ELSE IF fault = "writeManifest"
     THEN Outcome(manifest, state, removed, "FS_ERROR", {}, {}, NoSha, NoSha)
     ELSE Outcome(writeManifest(updated.skills), state, removed, "ok", {}, {},
                  NoSha, NoSha)

\* the part of update after the clone: lines 102-167
updateFromClone(skillName, entry, fault) ==
  LET newSha == getHeadSha
      pluginName == pluginNameOf(entry.source)
      src == IF isRemote(pluginName) THEN Absent ELSE SpContent(skillName, upSha)
      removed == [dirs EXCEPT ![skillName] = Absent]
      copied == [dirs EXCEPT ![skillName] = src]
      newState == writeState(withEntry(IF fault = "readState" THEN NoSkills ELSE readState,
                                      skillName,
                                      [contentHash |-> computeContentHash(src)]))
      newManifest == writeManifest(withEntry(readManifest, skillName,
                                         [source |-> entry.source, ref |-> entry.ref, sha |-> newSha]))
      Stuck(result) == Untouched(result, {"update"}, {"update"})
  IN IF fault = "revparse" THEN Stuck("EXEC_ERROR")
     ELSE IF newSha = entry.sha
     THEN IF fault = "rmClone" THEN Stuck("FS_ERROR")
          ELSE Outcome(manifest, state, dirs, "already-up-to-date", {"update"}, {}, NoSha, newSha)
     ELSE IF fault = "marketplace" THEN Stuck("MARKETPLACE_NOT_FOUND")
     ELSE IF ~findPlugin(pluginName) THEN Stuck("PLUGIN_NOT_FOUND")
     ELSE IF fault = "rm" THEN Stuck("FS_ERROR")
     ELSE IF fault = "cp" \/ ~src.present
     THEN Outcome(manifest, state, removed, "FS_ERROR", {"update"}, {"update"}, NoSha, NoSha)
     ELSE IF fault = "hash"
     THEN Outcome(manifest, state, copied, "EXEC_ERROR", {"update"}, {"update"}, NoSha, NoSha)
     ELSE IF fault = "writeState"
     THEN Outcome(manifest, state, copied, "FS_ERROR", {"update"}, {"update"}, NoSha, NoSha)
     ELSE IF fault = "writeManifest"
     THEN Outcome(manifest, newState, copied, "FS_ERROR", {"update"}, {"update"}, NoSha, NoSha)
     ELSE IF fault = "rmClone"
     THEN Outcome(newManifest, newState, copied, "FS_ERROR", {"update"}, {"update"}, NoSha, NoSha)
     ELSE Outcome(newManifest, newState, copied, "updated", {"update"}, {}, entry.sha, newSha)

\* the modification check left out: every update goes on to the clone
modCheckSkipped(skillName, force, fault) == "ok"

\* the modification check taking a skill without a recorded hash for modified
modCheckStrict(skillName, force, fault) ==
  IF force THEN "ok"
  ELSE IF skillName \notin DOMAIN readState THEN "SKILL_MODIFIED"
  ELSE IF fault = "modhash" \/ ~dirs[skillName].present THEN "EXEC_ERROR"
  ELSE IF computeContentHash(dirs[skillName]) # readState[skillName].contentHash
  THEN "SKILL_MODIFIED"
  ELSE "ok"

\* the local modification check: "ok", or the error it ends update with
modCheck(skillName, force, fault) ==
  IF force THEN "ok"
  ELSE IF skillName \notin DOMAIN readState THEN "ok"
  ELSE IF fault = "modhash" \/ ~dirs[skillName].present THEN "EXEC_ERROR"
  ELSE IF computeContentHash(dirs[skillName]) # readState[skillName].contentHash
  THEN "SKILL_MODIFIED"
  ELSE "ok"

update(skillName, force, fault) ==
  IF fault = "readManifest" \/ skillName \notin DOMAIN readManifest
  THEN Untouched("SKILL_NOT_INSTALLED", {}, {})
  ELSE LET entry == readManifest[skillName]
           ref == IF entry.ref = HEAD THEN NoRef ELSE entry.ref
           check == modCheck(skillName, force, fault)
       IN IF isShaRef(entry.ref)
          THEN Outcome(manifest, state, dirs, "skipped-pinned", {}, {}, NoSha, entry.sha)
          ELSE IF indexOf(entry.source, "@") = 0
          THEN Untouched("MARKETPLACE_PARSE_ERROR", {}, {})
          ELSE IF fault = "tmpdir" THEN Untouched("FS_ERROR", {}, {})
          ELSE IF check # "ok" THEN Untouched(check, {}, {})
          ELSE IF fault = "clone" \/ ~cloneRepo(cloneUrlOf(entry.source), ref)
          THEN Untouched("CLONE_FAILED", {"update"}, {})
          ELSE updateFromClone(skillName, entry, fault)

\* skills/<skillName> under the plugin directory add installs from
addSource(spec, skillName) ==
  IF isRemote(spec.plugin) THEN ExtContent(skillName, extSha)
  ELSE IF spec.plugin = PluginDocs THEN DocsContent(skillName)
  ELSE IF spec.plugin = PluginBare THEN Absent
  ELSE SpContent(skillName, upSha)

\* installSingleSkill on the manifest m and the directories d
installSingleSkill(spec, sha, skillName, m, d, fault) ==
  LET src == addSource(spec, skillName)
      entry == [source |-> sourceLabel(spec),
                ref |-> IF spec.ref = NoRef THEN HEAD ELSE spec.ref,
                sha |-> sha]
      updated == addSkillToManifest(IF m.exists /\ fault # "readManifest"
                                    THEN m.skills ELSE NoSkills,
                                    skillName, entry)
      copied == [d EXCEPT ![skillName] = cp(src, d[skillName])]
  IN IF skillName = UndefinedSkill
     THEN [manifest |-> m, dirs |-> d, result |-> "TypeError"]
     ELSE IF ~src.present THEN [manifest |-> m, dirs |-> d, result |-> "SKILL_NOT_FOUND"]
     ELSE IF ~updated.ok
     THEN [manifest |-> m, dirs |-> d, result |-> "SKILL_ALREADY_EXISTS"]
     ELSE IF fault \in {"mkdir", "cp"}
     THEN [manifest |-> m, dirs |-> d, result |-> "FS_ERROR"]
     ELSE IF fault = "writeManifest"
     THEN [manifest |-> m, dirs |-> copied, result |-> "FS_ERROR"]
     ELSE [manifest |-> writeManifest(updated.skills), dirs |-> copied, result |-> "ok"]

\* readdir of <pluginDir>/skills succeeds: the folder is there
hasSkillsDir(pluginName) == pluginName # PluginBare

\* listSkills: the entries of <pluginDir>/skills, in readdir order
listSkills(spec, order) ==
  SelectSeq(order, LAMBDA s : addSource(spec, s).present)

RECURSIVE installAllSkillsToTheEnd(_, _, _, _, _, _, _)
\* the chain that goes on after an error and returns the first one
installAllSkillsToTheEnd(spec, sha, list, m, d, fault, faultAt) ==
  IF list = <<>> THEN [manifest |-> m, dirs |-> d, result |-> "ok"]
  ELSE LET r == installSingleSkill(spec, sha, Head(list), m, d,
                                   IF faultAt = 1 THEN fault ELSE "none")
           rest == installAllSkillsToTheEnd(spec, sha, Tail(list), r.manifest, r.dirs,
                                            fault, faultAt - 1)
       IN IF r.result # "ok" THEN [rest EXCEPT !.result = r.result] ELSE rest

RECURSIVE installAllSkills(_, _, _, _, _, _, _)
\* the chain over the listed skills: it stops at the first error and keeps
\* what the earlier skills installed; the fault strikes the faultAt-th skill
installAllSkills(spec, sha, list, m, d, fault, faultAt) ==
  IF list = <<>> THEN [manifest |-> m, dirs |-> d, result |-> "ok"]
  ELSE LET r == installSingleSkill(spec, sha, Head(list), m, d,
                                   IF faultAt = 1 THEN fault ELSE "none")
       IN IF r.result # "ok" THEN r
          ELSE installAllSkills(spec, sha, Tail(list), r.manifest, r.dirs,
                                fault, faultAt - 1)

installSkills(spec, sha, order, fault, faultAt) ==
  IF spec.skill = "*"
  THEN IF hasSkillsDir(spec.plugin)
       THEN installAllSkills(spec, sha, listSkills(spec, order), manifest, dirs, fault,
                             faultAt)
       ELSE [manifest |-> manifest, dirs |-> dirs, result |-> "SKILL_NOT_FOUND"]
  ELSE installSingleSkill(spec, sha, spec.skill, manifest, dirs, fault)

add(spec, order, fault, faultAt) ==
  LET sha == getHeadSha
      clones == IF isRemote(spec.plugin) THEN {"clone", "plugin"} ELSE {"clone"}
      r == installSkills(spec, sha, order, fault, faultAt)
      Stuck(result) == Untouched(result, {"clone"}, {"clone"})
  IN IF fault = "tmpdir" THEN Untouched("FS_ERROR", {}, {})
     ELSE IF fault = "clone" \/ ~cloneRepo(marketplaceUrl(spec), spec.ref)
     THEN Untouched("CLONE_FAILED", {"clone"}, {})
     ELSE IF fault = "revparse" THEN Stuck("EXEC_ERROR")
     ELSE IF fault = "marketplace" THEN Stuck("MARKETPLACE_NOT_FOUND")
     ELSE IF ~findPlugin(spec.plugin) THEN Stuck("PLUGIN_NOT_FOUND")
     ELSE IF isRemote(spec.plugin) /\ fault = "pluginClone"
     THEN Untouched("CLONE_FAILED", clones, {"clone"})
     ELSE IF r.result # "ok"
     THEN Outcome(r.manifest, state, r.dirs, r.result, clones, clones, NoSha, NoSha)
     ELSE IF fault = "rmClone"
     THEN Outcome(r.manifest, state, r.dirs, "FS_ERROR", clones, clones, NoSha, NoSha)
     ELSE Outcome(r.manifest, state, r.dirs, "ok", clones, clones \ {"clone"}, NoSha, sha)

----------------------------------------------------------------------------
\* The reference parser

\* String.prototype.indexOf(sub, from), 1-based; 0 when absent
indexOfFrom(str, sub, from) ==
  LET hits == {i \in from..(Len(str) - Len(sub) + 1) :
                 SubSeq(str, i, i + Len(sub) - 1) = sub}
  IN IF hits = {} THEN 0 ELSE CHOOSE i \in hits : \A j \in hits : i <= j

RECURSIVE split(_)
\* String.prototype.split(':')
split(str) ==
  LET colon == indexOf(str, ":")
  IN IF colon = 0
     THEN <<str>>
     ELSE <<SubSeq(str, 1, colon - 1)>> \o split(SubSeq(str, colon + 1, Len(str)))

\* the segments after the marketplace: none for an empty rest
colonSegments(rest) == IF rest = <<>> THEN <<>> ELSE split(rest)

\* the marketplace is the text up to the first ":" that is not the one of
\* "://"; rest is what follows that colon
splitMarketplaceAndColons(input) ==
  LET protocolIndex == indexOfFrom(input, ProtocolSep, 1)
      searchFrom == IF protocolIndex # 0 THEN protocolIndex + 3 ELSE 1
      firstColon == indexOfFrom(input, <<":">>, searchFrom)
  IN IF firstColon = 0
     THEN [marketplace |-> input, rest |-> <<>>]
     ELSE [marketplace |-> SubSeq(input, 1, firstColon - 1),
           rest |-> SubSeq(input, firstColon + 1, Len(input))]

NoMarketplace == [type |-> "none", owner |-> <<>>, repo |-> <<>>, url |-> <<>>]

\* a URL when the text contains "://" or starts with "/"; otherwise
\* owner/repo, split at the first "/", and an error without a "/"
classifyMarketplace(marketplace) ==
  LET slash == indexOf(marketplace, "/")
  IN IF includes(marketplace, ProtocolSep)
        \/ (Len(marketplace) > 0 /\ marketplace[1] = "/")
     THEN [ok |-> TRUE,
           value |-> [type |-> "url", owner |-> <<>>, repo |-> <<>>, url |-> marketplace]]
     ELSE IF slash = 0
     THEN [ok |-> FALSE, value |-> NoMarketplace]
     ELSE [ok |-> TRUE,
           value |-> [type |-> "github",
                      owner |-> SubSeq(marketplace, 1, slash - 1),
                      repo |-> SubSeq(marketplace, slash + 1, Len(marketplace)),
                      url |-> <<>>]]

Digits == {"0", "1", "2", "3", "4", "5", "6", "7", "8", "9"}
RefHexMin == 7
RefHexMax == 40

\* /^v\d/ or /^[0-9a-f]{7,40}$/
looksLikeRef(segment) ==
  \/ (Len(segment) >= 2 /\ segment[1] = "v" /\ segment[2] \in Digits)
  \/ /\ Len(segment) >= RefHexMin
     /\ Len(segment) <= RefHexMax
     /\ \A i \in 1..Len(segment) : segment[i] \in HexChars

\* a parse result; an undefined skill or ref is NoRef
Ok(plugin, marketplace, skill, ref) ==
  [ok |-> TRUE, error |-> "none", plugin |-> plugin, marketplace |-> marketplace,
   skill |-> skill, ref |-> ref]

Err(code) ==
  [ok |-> FALSE, error |-> code, plugin |-> <<>>, marketplace |-> NoMarketplace,
   skill |-> NoRef, ref |-> NoRef]

orUndefined(segment) == IF Len(segment) > 0 THEN segment ELSE NoRef

\* two segments: the ref, then the skill; an empty one is undefined
twoSegments(plugin, marketplace, segments) ==
  Ok(plugin, marketplace, orUndefined(segments[2]), orUndefined(segments[1]))

parseRight(plugin, right) ==
  LET parts == splitMarketplaceAndColons(right)
      segments == colonSegments(parts.rest)
      marketplaceRef == classifyMarketplace(parts.marketplace)
  IN IF Len(right) = 0 THEN Err("INVALID_SPECIFIER")
     ELSE IF ~marketplaceRef.ok THEN Err("INVALID_SPECIFIER")
     ELSE IF Len(segments) = 0 THEN Ok(plugin, marketplaceRef.value, NoRef, NoRef)
     ELSE IF Len(segments) = 1
     THEN IF Len(segments[1]) = 0 THEN Ok(plugin, marketplaceRef.value, NoRef, NoRef)
          ELSE IF looksLikeRef(segments[1])
          THEN Ok(plugin, marketplaceRef.value, NoRef, segments[1])
          ELSE Ok(plugin, marketplaceRef.value, segments[1], NoRef)
     ELSE IF Len(segments) = 2 THEN twoSegments(plugin, marketplaceRef.value, segments)
     ELSE Err("INVALID_SPECIFIER")

\* the plugin is the text before the first "@" and must not be empty
parseSpecifier(input) ==
  LET atIndex == indexOf(input, "@")
  IN IF atIndex <= 1
     THEN Err("INVALID_SPECIFIER")
     ELSE parseRight(SubSeq(input, 1, atIndex - 1), SubSeq(input, atIndex + 1, Len(input)))

\* a marketplace without a plugin: at most one segment, the ref
parseMarketplaceRef(input) ==
  LET parts == splitMarketplaceAndColons(input)
      segments == colonSegments(parts.rest)
      marketplaceRef == classifyMarketplace(parts.marketplace)
  IN IF Len(input) = 0 THEN Err("INVALID_SPECIFIER")
     ELSE IF ~marketplaceRef.ok THEN Err("INVALID_SPECIFIER")
     ELSE IF Len(segments) = 0 THEN Ok(<<>>, marketplaceRef.value, NoRef, NoRef)
     ELSE IF Len(segments) = 1
     THEN Ok(<<>>, marketplaceRef.value, NoRef, orUndefined(segments[1]))
     ELSE Err("INVALID_SPECIFIER")

\* characters typed freely, and the parts references are composed of
InputChars == {"o", "/", ":", "@"}

PortUrl == <<"h", "t", "t", "p", ":", "/", "/", "h", ":", "8", "/", "m">>
ShorthandLocators == {<<"o", "/", "r">>, <<"o", "/", "r", "/", "x">>}
ValidLocators == ShorthandLocators \cup {BarePath, FileUrl, PortUrl}
Locators == ValidLocators \cup {<<>>, <<"o">>}

ComposedPlugins == {<<>>, PluginSp, <<"s", ":", "p">>}

HexRun(n) == [i \in 1..n |-> HexDigits[1 + (i % Len(HexDigits))]]

SegmentTexts ==
  {<<>>, <<"t", "d", "d">>, <<"*">>, <<"v", "1">>, <<"v", "x">>, <<"v">>,
   <<"1", "v">>, <<"A", "B", "C", "D", "E", "F", "0">>,
   <<"a", "b", "c", "d", "e", "f", "g">>,
   HexRun(RefHexMin - 1), HexRun(RefHexMin), HexRun(RefHexMax), HexRun(RefHexMax + 1)}

SegmentLists ==
  {<<>>} \cup {<<a>> : a \in SegmentTexts}
         \cup {<<a, b>> : a, b \in SegmentTexts}
         \cup {<<a, b, c>> : a, b, c \in {<<>>, <<"t", "d", "d">>}}

RECURSIVE joinSegments(_)
joinSegments(segments) ==
  IF segments = <<>> THEN <<>>
  ELSE <<":">> \o Head(segments) \o joinSegments(Tail(segments))

\* the query the ls command makes of an argument with "@": the plugin's
\* skills, listed from a clone of the marketplace at ref
lsQuery(parsed) ==
  [type |-> "remote-plugin", pluginName |-> parsed.plugin,
   marketplaceUrl |-> marketplaceUrl(parsed), ref |-> parsed.ref]

NoParts == [form |-> "typed", plugin |-> <<>>, locator |-> <<>>, segments |-> <<>>]

NotParsed == Err("none")

----------------------------------------------------------------------------
\* Invocations of the tool that run side by side, each with a scratch clone

Procs == {1, 2}
Commands == {"add", "update", "ls", "info"}

\* ls and info run their work inside withTempClone; add and update handle
\* their scratch clone themselves
usesWithTempClone(cmd) == cmd \in {"ls", "info"}

\* path.join(tmpBase, `local-skills-<kind>-${Date.now()}`)
cloneDirOf(cmd, t) ==
  <<IF cmd = "update" THEN "local-skills-update-" ELSE "local-skills-clone-", t>>

\* what the operation run on the clone can end with
OperationOutcomes == {"ok", "PLUGIN_NOT_FOUND"}

NoInvocation ==
  [cmd |-> "", pc |-> "idle", cloneDir |-> <<>>, error |-> "none",
   origin |-> "none", result |-> "", rmTried |-> FALSE]

\* withTempClone's error handler with the inner orElse left out: a failing
\* removal replaces the error
recoverResultMasked(error, rmOk) == IF rmOk THEN error ELSE "FS_ERROR"

\* withTempClone's error handler: rm(cloneDir), then the error it was given,
\* whether or not the removal succeeded
recoverResult(error, rmOk) == error

----------------------------------------------------------------------------
\* The state machine

Snapshot == [manifest |-> manifest, state |-> state, dirs |-> dirs]

\* the record of the latest call: its arguments, what it returned and the
\* project as it was when the call started
Call(op, skill, force, fault, r) ==
  [op |-> op, skill |-> skill, force |-> force, fault |-> fault,
   plugin |-> <<>>, listing |-> <<>>, faultAt |-> 0,
   result |-> r.result, started |-> r.started, left |-> r.left,
   oldSha |-> r.oldSha, newSha |-> r.newSha, pre |-> Snapshot]

EmptyProject ==
  [manifest |-> [exists |-> FALSE, skills |-> NoSkills],
   state |-> [exists |-> FALSE, skills |-> NoSkills],
   dirs |-> [s \in Entries |-> Absent]]

\* no call is running and none has a result waiting to be reported
Idle ==
  [op |-> "idle", skill |-> "", force |-> FALSE, fault |-> "none",
   plugin |-> <<>>, listing |-> <<>>, faultAt |-> 0,
   result |-> "", started |-> {}, left |-> {},
   oldSha |-> NoSha, newSha |-> NoSha, pre |-> EmptyProject]

\* History: the events that led to the present state, kept while they form
\* the beginning of one of the sequences below and forgotten otherwise.
Sequences ==
  UNION {{<<<<"add", s>>>>,
          <<<<"add", s>>, <<"edit", s>>>>,
          <<<<"add", s>>, <<"edit", s>>, <<"commit", "">>>>,
          <<<<"add", s>>, <<"commit", "">>>>,
          <<<<"add", s>>, <<"pluginCommit", "">>>>,
          <<<<"remove", s>>>>} : s \in Skills}

Then(event) ==
  IF Append(trail, event) \in Sequences THEN Append(trail, event)
  ELSE IF <<event>> \in Sequences THEN <<event>>
  ELSE <<>>

Init ==
  /\ manifest = EmptyProject.manifest
  /\ state = EmptyProject.state
  /\ dirs = EmptyProject.dirs
  /\ upSha = 1
  /\ extSha = 1
  /\ events = 0
  /\ trail = <<>>
  /\ last = Idle
  /\ now = 0
  /\ scratch = {}
  /\ inv = [p \in Procs |-> NoInvocation]
  /\ probe = [text |-> <<>>, stage |-> "typing", parts |-> NoParts, parsed |-> NotParsed]
  /\ tree = [files |-> NoFiles, stage |-> "writing", change |-> "none",
             first |-> <<>>, second |-> <<>>, other |-> NoFiles]

AddSpecs ==
  [plugin : {PluginSp, PluginExt, PluginZz}, marketplace : {UrlMarketplace},
   ref : {NoRef}, skill : Skills \cup {"*"}]

\* the references of the runs that only add and remove: the plugin with the
\* regular file among its skills, and a reference without a skill
InstallSpecs ==
  [plugin : {PluginSp, PluginExt, PluginDocs, PluginBare}, marketplace : {UrlMarketplace},
   ref : {NoRef}, skill : Skills \cup {"*", UndefinedSkill}]

Orders ==
  {<<"tdd", "debug", StrayFile>>, <<"debug", "tdd", StrayFile>>,
   <<StrayFile, "tdd", "debug">>}

\* a call starts when the previous one has been reported; it runs without an
\* I/O failure, or with one while the budget lasts
Strike(fault) ==
  /\ last = Idle
  /\ fault # "none" => events < MaxEvents
  /\ events' = IF fault = "none" THEN events ELSE events + 1

Apply(r) ==
  /\ manifest' = r.manifest
  /\ state' = r.state
  /\ dirs' = r.dirs
  /\ UNCHANGED <<invocationVars, probe, tree, upSha, extSha, trail>>

\* add(spec); order is the order readdir lists the skills folder in, and a
\* fault is an I/O failure that strikes: one the call runs into
Add(spec, order, fault, faultAt) ==
  LET r == add(spec, order, fault, faultAt)
  IN /\ Strike(fault)
     /\ spec.skill # "*" => order = <<"tdd", "debug", StrayFile>>
     /\ spec.skill # "*" \/ fault = "none" => faultAt = 1
     /\ fault # "none" => r # add(spec, order, "none", 1)
     /\ Apply(r)
     /\ last' = [Call("add", spec.skill, FALSE, fault, r) EXCEPT
                   !.plugin = spec.plugin,
                   !.listing = IF spec.skill = "*" THEN listSkills(spec, order) ELSE <<>>,
                   !.faultAt = IF spec.skill = "*" /\ fault # "none" THEN faultAt ELSE 0]

Update(skillName, force, fault) ==
  LET r == update(skillName, force, fault)
  IN /\ Strike(fault)
     /\ Apply(r)
     /\ last' = Call("update", skillName, force, fault, r)

Remove(skillName, fault) ==
  LET r == remove(skillName, fault)
  IN /\ Strike(fault)
     /\ Apply(r)
     /\ last' = Call("remove", skillName, FALSE, fault, r)

\* the user writes a file of an installed skill by hand
ManualEdit(skillName, path) ==
  /\ last = Idle
  /\ events < MaxEvents
  /\ dirs[skillName].present
  /\ dirs' = [dirs EXCEPT ![skillName] =
                cp(Dir([p \in {path} |-> Local]), dirs[skillName])]
  /\ events' = events + 1
  /\ trail' = Then(<<"edit", skillName>>)
  /\ UNCHANGED <<invocationVars, probe, tree, manifest, state, upSha, extSha, last>>

\* the user rewrites the ref of a manifest entry by hand: to the recorded
\* commit hash, or to a string that only resembles one
ManualRef(skillName, ref) ==
  /\ last = Idle
  /\ events < MaxEvents
  /\ skillName \in DOMAIN readManifest
  /\ ref \in {readManifest[skillName].sha, UpperSha}
  /\ manifest' = writeManifest(withEntry(readManifest, skillName,
                                         [readManifest[skillName] EXCEPT !.ref = ref]))
  /\ events' = events + 1
  /\ trail' = <<>>
  /\ UNCHANGED <<invocationVars, probe, tree, state, dirs, upSha, extSha, last>>

\* the user deletes the state file
ManualDeleteState ==
  /\ last = Idle
  /\ events < MaxEvents
  /\ state.exists
  /\ state' = [exists |-> FALSE, skills |-> NoSkills]
  /\ events' = events + 1
  /\ trail' = <<>>
  /\ UNCHANGED <<invocationVars, probe, tree, manifest, dirs, upSha, extSha, last>>

\* a commit lands on the marketplace repository
MarketplaceCommit ==
  /\ last = Idle
  /\ upSha < MaxSha
  /\ upSha' = upSha + 1
  /\ trail' = Then(<<"commit", "">>)
  /\ UNCHANGED <<invocationVars, probe, tree, manifest, state, dirs, extSha, events, last>>

\* the command line prints the outcome of the call and the process ends
Report ==
  /\ last # Idle
  /\ last' = Idle
  /\ trail' = IF last.op \in {"add", "remove"} /\ last.result = "ok" /\ last.skill \in Skills
               THEN Then(<<last.op, last.skill>>)
               ELSE <<>>
  /\ UNCHANGED <<invocationVars, probe, tree, manifest, state, dirs, upSha, extSha, events>>

Next ==
  \/ \E spec \in AddSpecs, order \in Orders, fault \in AddFaults \cup {"none"}, faultAt \in 1..2 :
       Add(spec, order, fault, faultAt)
  \/ \E s \in Skills, force \in BOOLEAN, fault \in UpdateFaults \cup {"none"} :
       Update(s, force, fault)
  \/ \E s \in Skills, fault \in RemoveFaults \cup {"none"} : Remove(s, fault)
  \/ \E s \in Skills, p \in Paths : ManualEdit(s, p)
  \/ \E s \in Skills, ref \in {ShaOf(n) : n \in 1..MaxSha} \cup {UpperSha} :
       ManualRef(s, ref)
  \/ ManualDeleteState
  \/ MarketplaceCommit
  \/ Report

Spec == Init /\ [][Next]_vars

\* a commit lands on the repository a remote plugin source points to
PluginCommit ==
  /\ last = Idle
  /\ extSha < MaxExtSha
  /\ extSha' = extSha + 1
  /\ trail' = Then(<<"pluginCommit", "">>)
  /\ UNCHANGED <<invocationVars, probe, tree, manifest, state, dirs, upSha, events, last>>

\* Runs in which the tool alone writes to the project: add, update and
\* remove of single skills, with I/O failures, while commits land on the
\* marketplace repository and on the remote plugin's repository
ToolSpecs ==
  [plugin : {PluginSp, PluginExt}, marketplace : {UrlMarketplace},
   ref : {NoRef}, skill : Skills]

ToolNext ==
  \/ \E spec \in ToolSpecs, fault \in AddFaults \cup ReadFaults \cup {"none"} :
       Add(spec, <<"tdd", "debug", StrayFile>>, fault, 1)
  \/ \E s \in Skills, force \in BOOLEAN,
        fault \in UpdateFaults \cup ReadFaults \cup {"none"} :
       Update(s, force, fault)
  \/ \E s \in Skills, fault \in RemoveFaults \cup {"none"} : Remove(s, fault)
  \/ MarketplaceCommit
  \/ PluginCommit
  \/ Report

ToolSpec == Init /\ [][ToolNext]_vars

\* Runs of add and remove alone, over the wider references
InstallNext ==
  \/ \E spec \in InstallSpecs, order \in Orders, fault \in AddFaults \cup {"none"},
        faultAt \in 1..2 :
       Add(spec, order, fault, faultAt)
  \/ \E s \in Skills, fault \in RemoveFaults \cup {"none"} : Remove(s, fault)
  \/ MarketplaceCommit
  \/ Report

InstallSpec == Init /\ [][InstallNext]_vars

----------------------------------------------------------------------------
\* Concurrent invocations

\* Date.now() moves on
Tick ==
  /\ now < MaxNow
  /\ now' = now + 1
  /\ UNCHANGED <<projectVars, scratch, inv, probe, tree>>

\* an invocation starts: deps.tmpdir(), then the name of its scratch clone
Begin(p, cmd, tmpOk) ==
  /\ inv[p].pc = "idle"
  /\ inv' = [inv EXCEPT ![p] =
               IF tmpOk
               THEN [NoInvocation EXCEPT !.cmd = cmd, !.pc = "clone",
                                         !.cloneDir = cloneDirOf(cmd, now)]
               ELSE [NoInvocation EXCEPT !.cmd = cmd, !.pc = "done",
                                         !.result = "FS_ERROR"]]
  /\ UNCHANGED <<projectVars, now, scratch, probe, tree>>

\* cloneRepo into the scratch directory: git refuses a target that exists
CloneStep(p, gitOk) ==
  LET me == inv[p]
      cloned == gitOk /\ me.cloneDir \notin scratch
  IN /\ me.pc = "clone"
     /\ scratch' = IF cloned THEN scratch \cup {me.cloneDir} ELSE scratch
     /\ inv' = [inv EXCEPT ![p] =
                  IF cloned THEN [me EXCEPT !.pc = "operation"]
                  ELSE IF usesWithTempClone(me.cmd)
                  THEN [me EXCEPT !.pc = "recover", !.error = "CLONE_FAILED",
                                  !.origin = "CLONE_FAILED"]
                  ELSE [me EXCEPT !.pc = "done", !.error = "CLONE_FAILED",
                                  !.origin = "CLONE_FAILED", !.result = "CLONE_FAILED"]]
     /\ UNCHANGED <<projectVars, now, probe, tree>>

\* the work on the clone; on an error add and update return at once
Operation(p, outcome) ==
  LET me == inv[p]
  IN /\ me.pc = "operation"
     /\ inv' = [inv EXCEPT ![p] =
                  IF outcome = "ok" THEN [me EXCEPT !.pc = "release"]
                  ELSE IF usesWithTempClone(me.cmd)
                  THEN [me EXCEPT !.pc = "recover", !.error = outcome, !.origin = outcome]
                  ELSE [me EXCEPT !.pc = "done", !.error = outcome, !.origin = outcome,
                                  !.result = outcome]]
     /\ UNCHANGED <<projectVars, now, scratch, probe, tree>>

\* deps.rm(cloneDir) after the work succeeded; in withTempClone a failure of
\* the removal goes to the error handler
Release(p, rmOk) ==
  LET me == inv[p]
  IN /\ me.pc = "release"
     /\ scratch' = IF rmOk THEN scratch \ {me.cloneDir} ELSE scratch
     /\ inv' = [inv EXCEPT ![p] =
                  IF rmOk THEN [me EXCEPT !.pc = "done", !.rmTried = TRUE, !.result = "ok"]
                  ELSE IF usesWithTempClone(me.cmd)
                  THEN [me EXCEPT !.pc = "recover", !.rmTried = TRUE, !.error = "FS_ERROR"]
                  ELSE [me EXCEPT !.pc = "done", !.rmTried = TRUE, !.error = "FS_ERROR",
                                  !.result = "FS_ERROR"]]
     /\ UNCHANGED <<projectVars, now, probe, tree>>

\* withTempClone's error handler
Recover(p, rmOk) ==
  LET me == inv[p]
  IN /\ me.pc = "recover"
     /\ scratch' = IF rmOk THEN scratch \ {me.cloneDir} ELSE scratch
     /\ inv' = [inv EXCEPT ![p] =
                  [me EXCEPT !.pc = "done", !.rmTried = TRUE,
                             !.result = recoverResult(me.error, rmOk)]]
     /\ UNCHANGED <<projectVars, now, probe, tree>>

InvocationNext ==
  \/ Tick
  \/ \E p \in Procs, cmd \in Commands, tmpOk \in BOOLEAN : Begin(p, cmd, tmpOk)
  \/ \E p \in Procs, gitOk \in BOOLEAN : CloneStep(p, gitOk)
  \/ \E p \in Procs, outcome \in OperationOutcomes : Operation(p, outcome)
  \/ \E p \in Procs, rmOk \in BOOLEAN : Release(p, rmOk)
  \/ \E p \in Procs, rmOk \in BOOLEAN : Recover(p, rmOk)

InvocationSpec == Init /\ [][InvocationNext]_vars

----------------------------------------------------------------------------
\* References typed by the user and parsed

TypeChar(ch) ==
  /\ probe.stage = "typing"
  /\ Len(probe.text) < MaxInput
  /\ probe' = [probe EXCEPT !.text = Append(probe.text, ch)]
  /\ UNCHANGED <<projectVars, invocationVars, tree>>

\* a reference written as plugin@locator followed by ":"-separated segments
ComposeSpecifier(plugin, locator, segments) ==
  /\ probe.stage = "typing"
  /\ probe.text = <<>>
  /\ probe' = [probe EXCEPT
                 !.text = plugin \o <<"@">> \o locator \o joinSegments(segments),
                 !.stage = "composed",
                 !.parts = [form |-> "specifier", plugin |-> plugin,
                            locator |-> locator, segments |-> segments]]
  /\ UNCHANGED <<projectVars, invocationVars, tree>>

\* a marketplace reference without a plugin, as ls takes it
ComposeMarketplaceRef(locator, segments) ==
  /\ probe.stage = "typing"
  /\ probe.text = <<>>
  /\ probe' = [probe EXCEPT
                 !.text = locator \o joinSegments(segments),
                 !.stage = "composed",
                 !.parts = [form |-> "marketplace", plugin |-> <<>>,
                            locator |-> locator, segments |-> segments]]
  /\ UNCHANGED <<projectVars, invocationVars, tree>>

Parse ==
  /\ probe.stage \in {"typing", "composed"}
  /\ probe.parts.form # "marketplace"
  /\ probe' = [probe EXCEPT !.stage = "parsed", !.parsed = parseSpecifier(probe.text)]
  /\ UNCHANGED <<projectVars, invocationVars, tree>>

ParseMarketplace ==
  /\ probe.stage \in {"typing", "composed"}
  /\ probe.parts.form # "specifier"
  /\ probe' = [probe EXCEPT !.stage = "parsedRef",
                            !.parsed = parseMarketplaceRef(probe.text)]
  /\ UNCHANGED <<projectVars, invocationVars, tree>>

ParseNext ==
  \/ \E ch \in InputChars : TypeChar(ch)
  \/ \E plugin \in ComposedPlugins, locator \in Locators, segments \in SegmentLists :
       ComposeSpecifier(plugin, locator, segments)
  \/ \E locator \in Locators, segments \in SegmentLists :
       ComposeMarketplaceRef(locator, segments)
  \/ Parse
  \/ ParseMarketplace

ParseSpec == Init /\ [][ParseNext]_vars

----------------------------------------------------------------------------
\* A directory that is written, hashed, changed and hashed again

HashBytes == {"x"} \cup InvalidBytes

Contents == UNION {[1..n -> HashBytes] : n \in 0..MaxContent}

WriteFile(path, content) ==
  /\ tree.stage = "writing"
  /\ path \notin DOMAIN tree.files
  /\ Cardinality(DOMAIN tree.files) < MaxFiles
  /\ tree' = [tree EXCEPT !.files = [p \in DOMAIN tree.files \cup {path} |->
                                       IF p = path THEN content ELSE tree.files[p]]]
  /\ UNCHANGED <<projectVars, invocationVars, probe>>

\* computeContentHash, with find printing the files in the given order
HashFirst ==
  /\ tree.stage = "writing"
  /\ \E enumeration \in Enumerations(DOMAIN tree.files) :
       tree' = [tree EXCEPT !.stage = "hashed",
                            !.first = contentHash(tree.files, enumeration)]
  /\ UNCHANGED <<projectVars, invocationVars, probe>>

ChangeByte(path, i, byte) ==
  /\ tree.stage = "hashed"
  /\ path \in DOMAIN tree.files
  /\ i \in DOMAIN tree.files[path]
  /\ byte # tree.files[path][i]
  /\ tree' = [tree EXCEPT !.stage = "changed", !.change = "byte",
                          !.files[path][i] = byte]
  /\ UNCHANGED <<projectVars, invocationVars, probe>>

AddFile(path, content) ==
  /\ tree.stage = "hashed"
  /\ path \notin DOMAIN tree.files
  /\ tree' = [tree EXCEPT !.stage = "changed", !.change = "add",
                          !.files = [p \in DOMAIN tree.files \cup {path} |->
                                       IF p = path THEN content ELSE tree.files[p]]]
  /\ UNCHANGED <<projectVars, invocationVars, probe>>

RemoveFile(path) ==
  /\ tree.stage = "hashed"
  /\ path \in DOMAIN tree.files
  /\ tree' = [tree EXCEPT !.stage = "changed", !.change = "remove",
                          !.files = [p \in DOMAIN tree.files \ {path} |-> tree.files[p]]]
  /\ UNCHANGED <<projectVars, invocationVars, probe>>

RenameFile(path, newPath) ==
  /\ tree.stage = "hashed"
  /\ path \in DOMAIN tree.files
  /\ newPath \notin DOMAIN tree.files
  /\ tree' = [tree EXCEPT !.stage = "changed", !.change = "rename",
                          !.files = [p \in (DOMAIN tree.files \ {path}) \cup {newPath} |->
                                       IF p = newPath THEN tree.files[path]
                                       ELSE tree.files[p]]]
  /\ UNCHANGED <<projectVars, invocationVars, probe>>

\* computeContentHash again, on the changed or on the unchanged directory
HashSecond ==
  /\ tree.stage \in {"hashed", "changed"}
  /\ \E enumeration \in Enumerations(DOMAIN tree.files) :
       tree' = [tree EXCEPT !.stage = "rehashed",
                            !.second = contentHash(tree.files, enumeration)]
  /\ UNCHANGED <<projectVars, invocationVars, probe>>

HashNext ==
  \/ \E path \in HashPaths, content \in Contents : WriteFile(path, content)
  \/ HashFirst
  \/ \E path \in HashPaths, i \in 1..(MaxContent + 1), byte \in HashBytes :
       ChangeByte(path, i, byte)
  \/ \E path \in HashPaths, content \in Contents : AddFile(path, content)
  \/ \E path \in HashPaths : RemoveFile(path)
  \/ \E path, newPath \in HashPaths : RenameFile(path, newPath)
  \/ HashSecond

HashSpec == Init /\ [][HashNext]_vars

\* Two directories side by side, each hashed.  Their files are named by one
\* character and hold text in which the characters of a file name and the
\* NUL character occur.
FeedPaths == {"a", "b"}
FeedBytes == {"b", NUL}
FeedContents == UNION {[1..n -> FeedBytes] : n \in 0..(MaxContent + 1)}
FeedDirs == UNION {[ps -> FeedContents] : ps \in SUBSET FeedPaths}

WriteDirs ==
  /\ tree.stage = "writing"
  /\ tree.files = NoFiles
  /\ \E files, other \in FeedDirs :
       tree' = [tree EXCEPT !.stage = "written", !.files = files, !.other = other]
  /\ UNCHANGED <<projectVars, invocationVars, probe>>

\* computeContentHash of the one and of the other
HashBoth ==
  /\ tree.stage = "written"
  /\ tree' = [tree EXCEPT !.stage = "fed",
                          !.first = computeContentHash(Dir(tree.files)),
                          !.second = computeContentHash(Dir(tree.other))]
  /\ UNCHANGED <<projectVars, invocationVars, probe>>

FeedNext ==
  \/ WriteDirs
  \/ HashBoth

FeedSpec == Init /\ [][FeedNext]_vars

----------------------------------------------------------------------------
\* Properties

PreManifest == IF last.pre.manifest.exists THEN last.pre.manifest.skills ELSE NoSkills
PreState == IF last.pre.state.exists THEN last.pre.state.skills ELSE NoSkills

\* the project is as it was when the latest call started
ProjectUntouched == Snapshot = last.pre

\* the latest call was update(S) on an installed skill whose ref is not a
\* commit hash
UpdateOfUnpinned ==
  /\ last.op = "update"
  /\ last.skill \in DOMAIN PreManifest
  /\ ~isShaRef(PreManifest[last.skill].ref)

\* when the latest call started, the state store had a contentHash for S
\* and the fingerprint of S's directory was a different one
LocallyModified ==
  /\ last.skill \in DOMAIN PreState
  /\ last.pre.dirs[last.skill].present
  /\ computeContentHash(last.pre.dirs[last.skill]) # PreState[last.skill].contentHash

IoErrors == {"CLONE_FAILED", "FS_ERROR", "EXEC_ERROR"}

\* C1: after a successful add of S, a manual edit of a file of S and a new
\* upstream commit, update(S) without force returns SKILL_MODIFIED and S's
\* directory still holds the manual edit.
C1_EditedSkillBlocksUpdate ==
  (/\ last.op = "update"
   /\ ~last.force
   /\ last.fault = "none"
   /\ trail = <<<<"add", last.skill>>, <<"edit", last.skill>>, <<"commit", "">>>>)
  => /\ last.result = "SKILL_MODIFIED"
     /\ dirs[last.skill] = last.pre.dirs[last.skill]

C3_FailedCallLeavesStores ==
  (/\ last.op \in {"add", "update", "remove"}
   /\ last.skill \in Skills
   /\ last.fault # "none"
   /\ last.result \in IoErrors)
  => /\ manifest = last.pre.manifest
     /\ state = last.pre.state

\* C4: every update that starts a clone into a scratch directory has removed
\* that directory by the time it returns, whatever the outcome.
C4_UpdateRemovesScratchClone ==
  (last.op = "update" /\ last.started # {}) => last.left = {}

\* C5: every scratch clone add creates (the marketplace clone and, for a
\* remote plugin source, the plugin clone) has been removed by the time add
\* returns, whether add succeeds or fails.
C5_AddRemovesScratchClones ==
  last.op = "add" => last.left = {}

C7_ManifestSkillsHaveDirectory ==
  \A s \in DOMAIN readManifest : dirs[s].present

\* C8: when add installs a skill or update rewrites a skill's files and the
\* call succeeds, the state store's contentHash of that skill is the
\* fingerprint of the directory just written.
C8_HashRecordedForWrittenFiles ==
  (\/ last.op = "add" /\ last.result = "ok" /\ last.skill \in Skills
   \/ last.op = "update" /\ last.result = "updated")
  => /\ last.skill \in DOMAIN readState
     /\ dirs[last.skill].present
     /\ readState[last.skill].contentHash = computeContentHash(dirs[last.skill])

\* C9: when the manifest ref of S is exactly 40 lowercase hexadecimal
\* characters, update(S), forced or not, returns skipped-pinned with the
\* recorded sha, starts no clone and changes nothing in the project.
C9_PinnedSkillIsSkipped ==
  (/\ last.op = "update"
   /\ last.skill \in DOMAIN PreManifest
   /\ LET ref == PreManifest[last.skill].ref
      IN Len(ref) = 40 /\ \A i \in 1..40 : ref[i] \in HexChars)
  => /\ last.result = "skipped-pinned"
     /\ last.newSha = PreManifest[last.skill].sha
     /\ last.started = {}
     /\ ProjectUntouched

\* C9 happens: a forced update of a pinned skill is skipped although upstream
\* has moved on
C9_Witness ==
  /\ last.op = "update"
  /\ last.force
  /\ last.result = "skipped-pinned"
  /\ last.newSha # ShaOf(upSha)

\* C10: when the state file is missing or has no entry for S, update(S)
\* without force is never refused with SKILL_MODIFIED, whatever the installed
\* directory holds: it goes on to the clone and the comparison of the commit
\* hashes.
C10_NoRecordedHashNoBlock ==
  (last.op = "update" /\ ~last.force /\ last.skill \notin DOMAIN PreState)
  => /\ last.result # "SKILL_MODIFIED"
     /\ UpdateOfUnpinned =>
          /\ last.started = {"update"}
          /\ last.result # "CLONE_FAILED" /\ last.fault = "none" =>
               (last.result = "already-up-to-date"
                  <=> PreManifest[last.skill].sha = ShaOf(upSha))

\* C10 happens: with no recorded hash, an update without force goes through
\* over a directory that holds a manual edit
C10_Witness ==
  /\ UpdateOfUnpinned /\ ~last.force /\ last.skill \notin DOMAIN PreState
  /\ \E p \in DOMAIN last.pre.dirs[last.skill].files :
       last.pre.dirs[last.skill].files[p] = Local
  /\ last.result = "updated"

\* the skill's content in the repository its plugin is served from, as it is
\* upstream when the latest call runs
Upstream(source, skillName) ==
  IF isRemote(pluginNameOf(source)) THEN ExtContent(skillName, extSha)
  ELSE IF pluginNameOf(source) = PluginDocs THEN DocsContent(skillName)
  ELSE IF pluginNameOf(source) = PluginBare THEN Absent
  ELSE SpContent(skillName, upSha)

\* C11: after a successful add of S, an update(S) with no upstream commit in
\* between returns already-up-to-date with the recorded sha and leaves S's
\* files, the manifest and the state store unchanged.
C11_UpdateAfterAddIsUpToDate ==
  (/\ last.op = "update"
   /\ last.fault = "none"
   /\ trail = <<<<"add", last.skill>>>>)
  => /\ last.result = "already-up-to-date"
     /\ last.newSha = PreManifest[last.skill].sha
     /\ ProjectUntouched

\* C12: after a successful add of S and a new upstream commit that still has
\* S, update(S) returns updated with oldSha the recorded sha, newSha the new
\* upstream HEAD and the two different; S's directory then holds the upstream
\* content and S's manifest entry has sha = newSha and its source unchanged.
C12_UpdateAfterCommitUpdates ==
  (/\ last.op = "update"
   /\ last.fault = "none"
   /\ trail = <<<<"add", last.skill>>, <<"commit", "">>>>
   /\ Upstream(PreManifest[last.skill].source, last.skill).present)
  => /\ last.result = "updated"
     /\ last.oldSha = PreManifest[last.skill].sha
     /\ last.newSha = ShaOf(upSha)
     /\ last.oldSha # last.newSha
     /\ dirs[last.skill] = Upstream(PreManifest[last.skill].source, last.skill)
     /\ last.skill \in DOMAIN readManifest
     /\ readManifest[last.skill].sha = last.newSha
     /\ readManifest[last.skill].source = PreManifest[last.skill].source

\* the installed directory of S held a file written by hand when the latest
\* call started
HandEdited ==
  /\ last.pre.dirs[last.skill].present
  /\ \E p \in DOMAIN last.pre.dirs[last.skill].files :
       last.pre.dirs[last.skill].files[p] = Local

\* C13: with force, update(S) of a non-pinned skill that was edited by hand
\* and whose upstream has a new commit that still has S returns updated, and
\* S's directory then holds exactly the upstream content.
C13_ForcedUpdateOverwritesEdit ==
  (/\ UpdateOfUnpinned
   /\ last.force
   /\ last.fault = "none"
   /\ HandEdited
   /\ PreManifest[last.skill].sha # ShaOf(upSha)
   /\ Upstream(PreManifest[last.skill].source, last.skill).present)
  => /\ last.result = "updated"
     /\ dirs[last.skill] = Upstream(PreManifest[last.skill].source, last.skill)
\* C14: add of a skill name that already has a manifest entry returns
\* SKILL_ALREADY_EXISTS and leaves the manifest, the state store and the
\* installed directories unchanged.
C14_AddOfInstalledIsRefused ==
  (/\ last.op = "add"
   /\ last.fault = "none"
   /\ last.skill \in DOMAIN PreManifest)
  => /\ last.result = "SKILL_ALREADY_EXISTS"
     /\ ProjectUntouched

\* C15: update or remove of a skill name without a manifest entry, also when
\* there is no manifest file, returns SKILL_NOT_INSTALLED, starts no clone
\* and changes neither the manifest, the state store nor any directory.
C15_NotInstalledIsRefused ==
  (/\ last.op \in {"update", "remove"}
   /\ last.skill \notin DOMAIN PreManifest)
  => /\ last.result = "SKILL_NOT_INSTALLED"
     /\ last.started = {}
     /\ ProjectUntouched

\* C15 happens: with no manifest file, remove(S) is refused and a directory
\* of that name that is on disk stays
C15_Witness ==
  /\ last.op = "remove"
  /\ ~last.pre.manifest.exists
  /\ last.pre.dirs[last.skill].present
  /\ last.result = "SKILL_NOT_INSTALLED"

\* C16: remove(S) of an installed skill succeeds, also when S's directory is
\* already missing; afterwards S has no directory and no manifest entry,
\* every other skill has the manifest entry and the directory it had, and
\* the state store is as it was.
C16_RemoveDeletesOnlyTheSkill ==
  (/\ last.op = "remove"
   /\ last.fault = "none"
   /\ last.skill \in DOMAIN PreManifest)
  => /\ last.result = "ok"
     /\ ~dirs[last.skill].present
     /\ DOMAIN readManifest = DOMAIN PreManifest \ {last.skill}
     /\ \A t \in DOMAIN readManifest : readManifest[t] = PreManifest[t]
     /\ \A t \in Skills \ {last.skill} : dirs[t] = last.pre.dirs[t]
     /\ state = last.pre.state

\* C16 happens: remove(S) succeeds for a skill whose directory was already
\* missing, while another skill is installed and the state store has entries
C16_Witness ==
  /\ last.op = "remove"
  /\ last.result = "ok"
  /\ last.skill \in DOMAIN PreManifest
  /\ ~last.pre.dirs[last.skill].present
  /\ DOMAIN readManifest # {}
  /\ DOMAIN readState # {}

\* C17: after remove(S), which left S's state-store entry behind, a
\* successful add(S) leaves in the state store the fingerprint of the files
\* it has just installed.
C17_AddOverwritesOrphanedHash ==
  (/\ last.op = "add"
   /\ last.result = "ok"
   /\ trail = <<<<"remove", last.skill>>>>
   /\ last.skill \in DOMAIN PreState)
  => /\ last.skill \in DOMAIN readState
     /\ readState[last.skill].contentHash = computeContentHash(dirs[last.skill])
\* the invocation has returned from withTempClone after starting its clone
ReturnedFromTempClone(p) ==
  /\ inv[p].pc = "done"
  /\ usesWithTempClone(inv[p].cmd)
  /\ inv[p].cloneDir # <<>>

\* C18: withTempClone attempts the removal of the scratch clone whether the
\* clone and the operation succeeded or one of them failed, and when one of
\* them failed it returns that error, also when the removal fails.
C18_TempCloneCleansAndKeepsError ==
  \A p \in Procs :
    ReturnedFromTempClone(p) =>
      /\ inv[p].rmTried
      /\ inv[p].origin # "none" => inv[p].result = inv[p].origin

\* C18 happens: the operation failed, the removal failed as well (the clone
\* is still on disk, nobody else is running) and the operation's error is
\* what came back
C18_Witness ==
  \E p \in Procs :
    /\ ReturnedFromTempClone(p)
    /\ inv[p].origin = "PLUGIN_NOT_FOUND"
    /\ inv[p].result = "PLUGIN_NOT_FOUND"
    /\ inv[p].cloneDir \in scratch
    /\ \A q \in Procs \ {p} : inv[q].pc = "idle"

\* the invocation has named its scratch clone and has not returned yet
Running(p) == inv[p].pc \in {"clone", "operation", "release", "recover"}

\* C19: two invocations that run at the same time never use the same
\* scratch clone directory.
C19_ScratchPathsDiffer ==
  \A p, q \in Procs :
    (p # q /\ Running(p) /\ Running(q)) => inv[p].cloneDir # inv[q].cloneDir

\* C20: for every reference the parser accepts, the clone URL update derives
\* from the source label add writes is the URL add cloned from.
C20_UpdateClonesWhatAddCloned ==
  (probe.stage = "parsed" /\ probe.parsed.ok)
  => cloneUrlOf(sourceLabel(probe.parsed)) = marketplaceUrl(probe.parsed)

----------------------------------------------------------------------------
\* Composed references, parsed

ParsedSpecifier == probe.stage = "parsed" /\ probe.parts.form = "specifier"
ParsedMarketplaceRef == probe.stage = "parsedRef" /\ probe.parts.form = "marketplace"

\* C21: a marketplace URL with a port is kept whole as the marketplace, by
\* parseSpecifier and by parseMarketplaceRef, and only the segments after
\* it are read as ref and skill.
C21_PortUrlKeptWhole ==
  /\ (/\ ParsedSpecifier
      /\ probe.parts.plugin # <<>>
      /\ probe.parts.locator = PortUrl
      /\ Len(probe.parts.segments) <= 2)
     => /\ probe.parsed.ok
        /\ probe.parsed.marketplace.type = "url"
        /\ probe.parsed.marketplace.url = PortUrl
        /\ {probe.parsed.ref, probe.parsed.skill}
             \subseteq {NoRef} \cup {probe.parts.segments[i] :
                                       i \in 1..Len(probe.parts.segments)}
  /\ (/\ ParsedMarketplaceRef
      /\ probe.parts.locator = PortUrl
      /\ Len(probe.parts.segments) <= 1)
     => /\ probe.parsed.ok
        /\ probe.parsed.marketplace.type = "url"
        /\ probe.parsed.marketplace.url = PortUrl
        /\ probe.parsed.ref \in {NoRef} \cup {probe.parts.segments[i] :
                                                i \in 1..Len(probe.parts.segments)}

\* the classes of text the parser must reject
NoAt == indexOf(probe.text, "@") = 0
EmptyPlugin == Len(probe.text) > 0 /\ probe.text[1] = "@"
NothingAfterAt == indexOf(probe.text, "@") = Len(probe.text)
ShorthandWithoutSlash ==
  /\ probe.parts.form = "specifier"
  /\ indexOf(probe.parts.locator, "/") = 0
TooManySegments ==
  /\ probe.parts.form = "specifier"
  /\ Len(probe.parts.segments) >= 3

\* a text of the form plugin@locator[:ref][:skill]
WellFormed ==
  /\ probe.parts.form = "specifier"
  /\ probe.parts.plugin # <<>>
  /\ probe.parts.locator \in ValidLocators
  /\ Len(probe.parts.segments) <= 2

\* C22: parseSpecifier accepts every text plugin@locator[:ref][:skill] with
\* a plugin and a valid locator, and answers INVALID_SPECIFIER to a text
\* without "@", with "@" first, with nothing after the "@", with a shorthand
\* locator without "/", or with three or more segments after the locator.
C22_ParseSpecifierIsTotal ==
  probe.stage = "parsed"
  => /\ WellFormed => probe.parsed.ok
     /\ (NoAt \/ EmptyPlugin \/ NothingAfterAt \/ ShorthandWithoutSlash \/ TooManySegments)
        => (~probe.parsed.ok /\ probe.parsed.error = "INVALID_SPECIFIER")

\* C23: a single non-empty segment after the locator is the ref, with no
\* skill, exactly when it starts with "v" and a digit or is 7 to 40
\* lower-case hexadecimal characters; otherwise it is the skill, with no ref.
OneSegment ==
  /\ ParsedSpecifier
  /\ WellFormed
  /\ Len(probe.parts.segments) = 1
  /\ probe.parts.segments[1] # <<>>

RefLike(segment) ==
  \/ (Len(segment) >= 2 /\ segment[1] = "v" /\ segment[2] \in Digits)
  \/ /\ Len(segment) \in RefHexMin..RefHexMax
     /\ \A i \in 1..Len(segment) :
          segment[i] \in {"0", "1", "2", "3", "4", "5", "6", "7", "8", "9",
                          "a", "b", "c", "d", "e", "f"}

C23_SingleSegmentRefOrSkill ==
  OneSegment
  => /\ probe.parsed.ok
     /\ IF RefLike(probe.parts.segments[1])
        THEN probe.parsed.ref = probe.parts.segments[1] /\ probe.parsed.skill = NoRef
        ELSE probe.parsed.skill = probe.parts.segments[1] /\ probe.parsed.ref = NoRef

\* C24: two segments after the locator are the ref and the skill, in that
\* order, each undefined when empty, whatever they look like; a second
\* segment "*" is the skill "*".
TwoSegments ==
  /\ ParsedSpecifier
  /\ WellFormed
  /\ Len(probe.parts.segments) = 2

C24_TwoSegmentsRefThenSkill ==
  TwoSegments
  => /\ probe.parsed.ok
     /\ probe.parsed.ref = (IF probe.parts.segments[1] = <<>>
                            THEN NoRef ELSE probe.parts.segments[1])
     /\ probe.parsed.skill = (IF probe.parts.segments[2] = <<>>
                              THEN NoRef ELSE probe.parts.segments[2])

\* C25: the source label of an accepted reference plugin@owner/repo:ref:skill
\* parses again, to the same plugin and the same owner and repo.
C25_SourceLabelParsesBack ==
  (/\ probe.stage = "parsed"
   /\ probe.parsed.ok
   /\ probe.parsed.marketplace.type = "github")
  => LET again == parseSpecifier(sourceLabel(probe.parsed))
     IN /\ again.ok
        /\ again.plugin = probe.parsed.plugin
        /\ again.marketplace = probe.parsed.marketplace

C25_Witness ==
  /\ ParsedSpecifier
  /\ probe.parts.locator = <<"o", "/", "r", "/", "x">>
  /\ Len(probe.parts.segments) = 2
  /\ probe.parts.segments[1] = <<"v", "1">>
  /\ probe.parts.segments[2] = <<"t", "d", "d">>
  /\ probe.parsed.ok
  /\ probe.parsed.marketplace.repo = <<"r", "/", "x">>
  /\ parseSpecifier(sourceLabel(probe.parsed)).marketplace = probe.parsed.marketplace

----------------------------------------------------------------------------
\* Wildcard adds

\* the source label of the reference the latest add was called with
AddedLabel == sourceLabel([plugin |-> last.plugin, marketplace |-> UrlMarketplace])

\* the skills of the plugin: the subdirectories of its skills folder
SkillsFound == {s \in Entries : isDirectory(Upstream(AddedLabel, s))}

\* the manifest entry and the files of s are those of an install by the
\* latest add
InstalledNow(s) ==
  /\ s \in DOMAIN readManifest
  /\ s \notin DOMAIN PreManifest
  /\ readManifest[s].source = AddedLabel
  /\ dirs[s].present
  /\ \A p \in DOMAIN Upstream(AddedLabel, s).files :
       /\ p \in DOMAIN dirs[s].files
       /\ dirs[s].files[p] = Upstream(AddedLabel, s).files[p]

\* the latest call left the manifest entry and the directory of s alone
LeftAlone(s) ==
  /\ dirs[s] = last.pre.dirs[s]
  /\ s \in DOMAIN readManifest <=> s \in DOMAIN PreManifest
  /\ s \in DOMAIN PreManifest => readManifest[s] = PreManifest[s]

\* C26: a successful add of "*" installs exactly the skills under the
\* plugin's skills folder, one directory and one manifest entry each, all
\* with the same source label, and nothing else.
C26_WildcardInstallsExactlyTheSkills ==
  (last.op = "add" /\ last.skill = "*" /\ last.result = "ok")
  => /\ \A s \in SkillsFound : InstalledNow(s) /\ isDirectory(dirs[s])
     /\ \A s \in Entries \ SkillsFound : LeftAlone(s)

\* the places of the listing at which the install of a skill fails: the
\* skill is in the manifest already, or the I/O failure strikes there
FailingPlaces ==
  {k \in 1..Len(last.listing) :
     \/ last.listing[k] \in DOMAIN PreManifest
     \/ last.fault \in {"cp", "writeManifest"} /\ last.faultAt = k}

FirstFailure == CHOOSE k \in FailingPlaces : \A j \in FailingPlaces : k <= j

WildcardSkillFails ==
  /\ last.op = "add"
  /\ last.skill = "*"
  /\ last.fault \notin {"clone", "revparse", "pluginClone"}
  /\ FailingPlaces # {}

\* C27: when a skill fails during an add of "*", add returns that first
\* error, the skills listed before it are installed and stay so, and no
\* skill listed after it is installed.
C27_WildcardStopsAtFirstFailure ==
  WildcardSkillFails
  => /\ last.result = (IF last.listing[FirstFailure] \in DOMAIN PreManifest
                       THEN "SKILL_ALREADY_EXISTS" ELSE "FS_ERROR")
     /\ \A i \in 1..(FirstFailure - 1) : InstalledNow(last.listing[i])
     /\ \A i \in (FirstFailure + 1)..Len(last.listing) : LeftAlone(last.listing[i])

\* a failure at the second of two listed skills, and one at the first
C27_Witness ==
  /\ WildcardSkillFails
  /\ Len(last.listing) = 2
  /\ FirstFailure = 2
  /\ last.result = "SKILL_ALREADY_EXISTS"
  /\ InstalledNow(last.listing[1])

\* C28: add called with a reference without a skill returns
\* INVALID_SPECIFIER and installs nothing.
C28_AddWithoutSkillIsRefused ==
  (last.op = "add" /\ last.skill = UndefinedSkill)
  => (last.result = "INVALID_SPECIFIER" /\ ProjectUntouched)

----------------------------------------------------------------------------
\* The content hash

\* C29: changing one byte of a file, adding, removing or renaming a file
\* changes what computeContentHash feeds to the hash, and so the digest.
C29_HashSeesEveryChange ==
  (tree.stage = "rehashed" /\ tree.change # "none") => tree.second # tree.first

\* C30: the digest depends only on the files and their contents: not on the
\* order find prints them in, and a second run on the unchanged directory
\* returns the same digest.
C30_HashIgnoresEnumerationOrder ==
  /\ (tree.stage = "rehashed" /\ tree.change = "none") => tree.second = tree.first
  /\ tree.stage \in {"hashed", "changed", "rehashed"}
     => \A enumeration \in Enumerations(DOMAIN tree.files) :
          contentHash(tree.files, enumeration) = computeContentHash(Dir(tree.files))

\* two files, hashed twice without a change in between
C30_Witness ==
  /\ tree.stage = "rehashed"
  /\ tree.change = "none"
  /\ Cardinality(DOMAIN tree.files) = 2
  /\ Cardinality(Enumerations(DOMAIN tree.files)) = 2
  /\ tree.second = tree.first

----------------------------------------------------------------------------
\* Update, continued

\* the Ok results of update
UpdateSuccess == {"updated", "already-up-to-date", "skipped-pinned"}

\* C31: whenever update with --force returns success for a non-pinned skill,
\* the installed skill directory afterwards holds the upstream skill content,
\* so that files modified by hand have been overwritten.
C31_ForcedUpdateLeavesUpstreamContent ==
  (/\ UpdateOfUnpinned
   /\ last.force
   /\ last.result \in UpdateSuccess)
  => dirs[last.skill] = Upstream(PreManifest[last.skill].source, last.skill)

\* C32: while the tool alone writes the files of the installed skills (no
\* manual change to the project), update without force never returns
\* SKILL_MODIFIED, across every sequence of add, update and remove, calls
\* that failed part-way on an I/O error included.
C32_ToolWritesNeverModified ==
  (last.op = "update" /\ ~last.force) => last.result # "SKILL_MODIFIED"

\* C33: if update returns an error, the installed skill directory still
\* holds the files it held before the update started.
C33_FailedUpdateKeepsFiles ==
  (/\ last.op = "update"
   /\ last.skill \in Skills
   /\ last.result \notin UpdateSuccess)
  => dirs[last.skill] = last.pre.dirs[last.skill]

\* the latest call was an update without an I/O failure that found a new
\* upstream SHA and went on to locate the skill's source directory
LocatedSource ==
  /\ UpdateOfUnpinned
  /\ last.fault = "none"
  /\ last.started # {}
  /\ last.result \notin {"CLONE_FAILED", "PLUGIN_NOT_FOUND"}
  /\ PreManifest[last.skill].sha # ShaOf(upSha)

\* C34: when the upstream SHA has changed, update locates the skill's source
\* directory as add does: it clones a remote plugin source into a second
\* scratch location before copying, and it returns SKILL_NOT_FOUND when the
\* skill directory is no longer under the plugin's skills folder.
C34_UpdateLocatesSourceAsAdd ==
  LocatedSource =>
    LET source == PreManifest[last.skill].source
    IN /\ isRemote(pluginNameOf(source)) => "plugin" \in last.started
       /\ ~Upstream(source, last.skill).present => last.result = "SKILL_NOT_FOUND"

\* S was added, and the one commit made since then, to the repository S is
\* copied from, changed S's files
ChangedSinceInstalled ==
  /\ last.skill \in DOMAIN PreManifest
  /\ LET remote == isRemote(pluginNameOf(PreManifest[last.skill].source))
     IN \/ /\ trail = <<<<"add", last.skill>>, <<"commit", "">>>>
           /\ ~remote
           /\ SpContent(last.skill, upSha) # SpContent(last.skill, upSha - 1)
        \/ /\ trail = <<<<"add", last.skill>>, <<"pluginCommit", "">>>>
           /\ remote
           /\ ExtContent(last.skill, extSha) # ExtContent(last.skill, extSha - 1)

\* C35: if the upstream content of a skill, in the repository it is copied
\* from, has changed since it was installed, update does not return
\* already-up-to-date; this includes a plugin whose source is a separate
\* repository that received a commit while the marketplace repository did not.
C35_ChangedUpstreamIsNotUpToDate ==
  (last.op = "update" /\ ChangedSinceInstalled)
  => last.result # "already-up-to-date"

\* the entry of skill t in a store, or <<>> when the store has none
EntryOf(skills, t) == IF t \in DOMAIN skills THEN skills[t] ELSE <<>>

\* C36: a successful add or update of skill S leaves every other skill's
\* manifest entry and state-store entry unchanged, also when a read of the
\* manifest or of the state file fails with a filesystem error other than
\* the file being absent.
C36_OtherEntriesKept ==
  (/\ last.op \in {"add", "update"}
   /\ last.skill \in Skills
   /\ last.result \in {"ok"} \cup UpdateSuccess)
  => \A t \in Skills \ {last.skill} :
       /\ EntryOf(readManifest, t) = EntryOf(PreManifest, t)
       /\ EntryOf(readState, t) = EntryOf(PreState, t)

----------------------------------------------------------------------------
\* Listing

\* the latest call was an add of "*" that came to list the plugin's skills
ListedSkills ==
  /\ last.op = "add"
  /\ last.skill = "*"
  /\ last.fault \notin {"clone", "revparse", "pluginClone"}
  /\ findPlugin(last.plugin)

\* C37: listSkills returns exactly the names of the immediate
\* subdirectories of <pluginDir>/skills (a regular file in that folder is not
\* reported as a skill), and SKILL_NOT_FOUND, not an empty list, when the
\* folder is absent.
C37_ListSkillsListsSubdirectories ==
  ListedSkills =>
    IF hasSkillsDir(last.plugin)
    THEN {last.listing[i] : i \in 1..Len(last.listing)} = SkillsFound
    ELSE last.result = "SKILL_NOT_FOUND"

----------------------------------------------------------------------------
\* The bytes fed to the hash

\* C38: two directories that differ in their set of files or in the content
\* of a file always feed different byte sequences to the hash: the sequence
\* of path, NUL, content is unambiguous.
C38_FeedIsUnambiguous ==
  (tree.stage = "fed" /\ tree.files # tree.other) => tree.first # tree.second

----------------------------------------------------------------------------
\* Parsed references, continued

\* C39: every Ok result of parseSpecifier has a non-empty plugin and a
\* non-empty marketplace: a url marketplace has a non-empty url, a github
\* marketplace a non-empty owner and a non-empty repo.
C39_OkResultHasPluginAndMarketplace ==
  (probe.stage = "parsed" /\ probe.parsed.ok)
  => /\ probe.parsed.plugin # <<>>
     /\ probe.parsed.marketplace.type \in {"url", "github"}
     /\ probe.parsed.marketplace.type = "url" => probe.parsed.marketplace.url # <<>>
     /\ probe.parsed.marketplace.type = "github" =>
          /\ probe.parsed.marketplace.owner # <<>>
          /\ probe.parsed.marketplace.repo # <<>>

\* C40: for ls with an argument plugin@marketplace:X, the plugin's skills
\* are listed from ref X of the marketplace, for every non-empty X (a
\* branch name, a tag or a SHA).
C40_LsListsFromTheGivenRef ==
  OneSegment
  => /\ probe.parsed.ok
     /\ lsQuery(probe.parsed).ref = probe.parts.segments[1]

============================================================================
